---- MODULE Spec2Model ----
\* Model of pkg/aria2/Monitor.go: one Monitor (NewMonitor, Loop, Update and the
\* handlers Update calls), the Dispatcher entry it subscribes to, the engine it
\* queries, the persisted record, the temp directories and the job pool.
EXTENDS Integers, Sequences, FiniteSets, TLC

\* ------------------------------------------------------------------ bounds

\* Reconciliation passes one Monitor may start.
MaxPasses == 2
\* Wake events the Dispatcher may have blocked on the Monitor's unbuffered inbox.
MaxPending == 1

\* ------------------------------------------------------- program constants

\* Default of the aria2_interval setting, in seconds (Monitor.go:39).
DefaultInterval == 10

\* ------------------------------------------------------------- text values
\* A string is a sequence of one-character strings; a path is a sequence of
\* path elements.

Digits == {"0", "1", "2", "3", "4", "5", "6", "7", "8", "9"}

DigitVal(c) ==
    CASE c = "0" -> 0 [] c = "1" -> 1 [] c = "2" -> 2 [] c = "3" -> 3
      [] c = "4" -> 4 [] c = "5" -> 5 [] c = "6" -> 6 [] c = "7" -> 7
      [] c = "8" -> 8 [] c = "9" -> 9

IsDigits(s) == Len(s) > 0 /\ \A i \in 1..Len(s) : s[i] \in Digits

RECURSIVE StripZeros(_)
StripZeros(s) ==
    IF Len(s) > 1 /\ s[1] = "0" THEN StripZeros(Tail(s)) ELSE s

RECURSIVE NatOf(_)
NatOf(s) ==
    IF s = <<>> THEN 0
    ELSE 10 * NatOf(SubSeq(s, 1, Len(s) - 1)) + DigitVal(s[Len(s)])

\* Whether the digit string a (no leading zeros) is a larger number than b.
RECURSIVE DigitsGreater(_, _)
DigitsGreater(a, b) ==
    IF Len(a) # Len(b) THEN Len(a) > Len(b)
    ELSE IF a = <<>> THEN FALSE
    ELSE IF a[1] # b[1] THEN DigitVal(a[1]) > DigitVal(b[1])
    ELSE DigitsGreater(Tail(a), Tail(b))

\* 2^64 - 1 and 2^63 - 1, as digit strings.
MaxUint64Digits ==
    <<"1","8","4","4","6","7","4","4","0","7","3","7","0","9","5","5","1","6","1","5">>
MaxInt64Digits ==
    <<"9","2","2","3","3","7","2","0","3","6","8","5","4","7","7","5","8","0","7">>

\* strconv.ParseUint(s, 10, 64): the value and the error. A syntax error yields
\* 0, a range error the largest value (kept as a token: it has no use but to be
\* discarded).
ParseUint(s) ==
    IF ~IsDigits(s) THEN [val |-> 0, err |-> "syntax"]
    ELSE IF DigitsGreater(StripZeros(s), MaxUint64Digits)
         THEN [val |-> "MaxUint64", err |-> "range"]
    ELSE [val |-> NatOf(s), err |-> ""]

\* strconv.Atoi(s): an optional sign, then digits.
Atoi(s) ==
    LET signed == Len(s) > 0 /\ s[1] \in {"+", "-"}
        body   == IF signed THEN Tail(s) ELSE s
        neg    == signed /\ s[1] = "-"
    IN  IF ~IsDigits(body) THEN [val |-> 0, err |-> "syntax"]
        ELSE IF DigitsGreater(StripZeros(body), MaxInt64Digits)
             THEN [val |-> IF neg THEN "MinInt" ELSE "MaxInt", err |-> "range"]
        ELSE [val |-> IF neg THEN 0 - NatOf(body) ELSE NatOf(body), err |-> ""]

\* filepath.Base: the last element of the path, "." for the empty path.
Base(p) == IF p = <<>> THEN "." ELSE p[Len(p)]

\* path.Join(dir, name) for a single name: "." adds nothing.
Join(dir, name) == IF name = "." THEN dir ELSE Append(dir, name)

Range(s) == {s[i] : i \in 1..Len(s)}

\* ---------------------------------------------------------- engine status

\* getStatus: the engine's status string as the record's status.
getStatus(s) ==
    CASE s = "complete" -> "Complete"
      [] s = "active"   -> "Downloading"
      [] s = "waiting"  -> "Ready"
      [] s = "paused"   -> "Paused"
      [] s = "error"    -> "Error"
      [] s = "removed"  -> "Canceled"
      [] OTHER          -> "Unknown"

GIDs == {"g0", "g1"}

Dir0 == <<"tmp", "d0">>
Dir1 == <<"tmp", "d1">>
Dirs == {Dir0, Dir1}

PathA == <<"tmp", "d1", "a.iso">>
PathB == <<"tmp", "d1", "b.exe">>

One      == <<"1">>
Nine     == <<"9">>
Minus1   == <<"-", "1">>
NotANum  == <<"1", "x">>
Empty    == <<>>
Overflow == [i \in 1..21 |-> "9"]

\* (totalLength, completedLength, downloadSpeed) of the responses.
Numerics ==
    { <<One, One, One>>, <<Nine, One, One>>,
      <<NotANum, One, One>>, <<One, Empty, One>>, <<One, One, NotANum>>,
      <<One, One, Minus1>>, <<Overflow, NotANum, Empty>> }

\* (files, dir) of the responses.
FilesDirs ==
    { <<<<>>, Dir0>>, <<<<PathA>>, Dir0>>, <<<<PathA>>, Dir1>>,
      <<<<PathB, PathA>>, Dir1>> }

StatusStrings ==
    {"active", "waiting", "paused", "complete", "error", "removed", "bogus"}

EngineMessages(s) ==
    IF s = "error" THEN {"disk full", "no peers"}
    ELSE IF s = "removed" THEN {"disk full"} ELSE {""}

StatusInfo(gid, s, n, fd, fb, msg) ==
    [ Gid |-> gid, Status |-> s,
      TotalLength |-> n[1], CompletedLength |-> n[2], DownloadSpeed |-> n[3],
      Files |-> fd[1], Dir |-> fd[2], FollowedBy |-> fb, ErrorMessage |-> msg ]

FollowedBys == { <<"g1">>, <<"g1", "g0">> }

\* (numerics, files and dir) of the responses: every numeric triple with one
\* file in Dir1, and every (files, dir) with a well-formed triple.
Payloads ==
    { <<n, <<<<PathA>>, Dir1>>>> : n \in Numerics }
    \cup { <<n, fd>> : n \in {<<One, One, One>>, <<Nine, One, One>>},
                       fd \in FilesDirs }

\* Responses without a redirect, reporting the identifier that was queried.
PlainResponses(gid) ==
    UNION { { StatusInfo(gid, s, p[1], p[2], <<>>, m) :
                p \in Payloads, m \in EngineMessages(s) } :
            s \in StatusStrings }

\* Responses that carry a followed-by list, under every status string.
RedirectResponses(gid) ==
    { StatusInfo(gid, s, <<Nine, One, One>>, <<<<PathA>>, Dir1>>, fb, "") :
        s \in StatusStrings, fb \in FollowedBys }

\* Responses that report another identifier than the one queried.
RenamedResponses(gid) ==
    { StatusInfo(g, s, <<One, One, One>>, <<<<PathA>>, Dir1>>, <<>>, "") :
        g \in GIDs \ {gid}, s \in {"active", "complete"} }

\* The responses the engine may give to a query for gid.
Responses(gid) ==
    PlainResponses(gid) \cup RedirectResponses(gid) \cup RenamedResponses(gid)

\* The responses with well-formed numerals and a directory of their own, one
\* message per status and at most one followed-by identifier: each status,
\* with and without a redirect, a renamed identifier, and sizes and names
\* that pass and that fail validation.
SampleResponses(gid) ==
    { r \in Responses(gid) :
        /\ r.TotalLength \in {One, Nine}
        /\ r.CompletedLength = One /\ r.DownloadSpeed = One
        /\ r.Dir = Dir1
        /\ r.ErrorMessage \in {"", "disk full"}
        /\ Len(r.FollowedBy) <= 1 }

\* The zero value of the response (no query has answered).
NoStatus == StatusInfo("", "", <<Empty, Empty, Empty>>, <<<<>>, <<>>>>, <<>>, "")

\* Reasons a status query can fail with.
QueryErrors == {"rpc: connection refused"}

\* ----------------------------------------------------------------- errors

ErrUserNotFound     == "user not found"
ErrFileSystem       == "cannot create file system"
ErrFileViolation    == "file not allowed"
ErrCapacity         == "insufficient capacity"
ErrTransferTask     == "cannot create transfer task"

\* ------------------------------------------------------------- the record

\* The model.Download a Monitor is created for.
NewDownload ==
    [ GID |-> "g0", Status |-> "Ready", TotalSize |-> 0, DownloadedSize |-> 0,
      Speed |-> 0, Path |-> <<>>, Parent |-> Dir0, Dst |-> <<"home">>,
      UserID |-> "u1", Error |-> "", TaskID |-> "" ]

\* Identifier of the transfer task NewTransferTask creates.
NewJobID == "job1"

VARIABLES
    task,       \* monitor.Task, the record in memory
    db,         \* the record as last saved with success
    saved,      \* the record handed to the last Save
    subs,       \* keys under which the Dispatcher holds monitor.notifier
    nm,         \* NewMonitor: "subscribe" (Loop started, Subscribe to come), "done"
    pc,         \* the Loop goroutine's position
    unsubKey,   \* the argument of the deferred Unsubscribe
    interval,   \* Loop's local interval
    status,     \* Update's local status
    err,        \* the error Update holds (query or UpdateTaskInfo)
    origin,     \* UpdateTaskInfo's originSize and originPath
    ret,        \* what Update returns
    log,        \* what the current pass has done, in order
    pending,    \* Dispatcher sends blocked on monitor.notifier
    passes,     \* passes started
    active,     \* passes started and not yet returned
    dirs,       \* temp directories that exist
    timers,     \* grace-period goroutines started by Cancel, not yet fired
    cancels,    \* identifiers the engine was asked to cancel
    jobs,       \* transfer jobs submitted to the pool
    calls       \* invocations of the Complete and Error handlers

vars == << task, db, saved, subs, nm, pc, unsubKey, interval, status, err,
           origin, ret, log, pending, passes, active, dirs, timers, cancels,
           jobs, calls >>

\* The zero value of UpdateTaskInfo's locals.
NoOrigin == [TotalSize |-> 0, Path |-> <<>>]

Init ==
    /\ task = NewDownload
    /\ db = NewDownload
    /\ saved = NewDownload
    /\ subs = {}
    /\ nm = "subscribe"
    /\ pc = "entry"
    /\ unsubKey = ""
    /\ interval = 0
    /\ status = NoStatus
    /\ err = ""
    /\ origin = NoOrigin
    /\ ret = FALSE
    /\ log = <<>>
    /\ pending = 0
    /\ passes = 0
    /\ active = 0
    /\ dirs = Dirs
    /\ timers = 0
    /\ cancels = <<>>
    /\ jobs = <<>>
    /\ calls = [Complete |-> 0, Error |-> 0]

\* ------------------------------------------------------------ collaborators

\* Task.Save: the record in the database after a Save of t that ended ok or not.
Save(t, ok) == IF ok THEN t ELSE db

\* Dispatcher (EventNotifier): Subscribe stores the inbox under the key,
\* Unsubscribe deletes the key.
Subscribe(s, key)   == s \cup {key}
Unsubscribe(s, key) == s \ {key}

\* Sizes the owner's remaining capacity admits.
FreeCapacity == 2
\* File names the owner's policy refuses.
RefusedNames == {"b.exe"}

\* filesystem.HookValidateFile and HookValidateCapacityWithoutIncrease on the
\* file header (size, name).
HookValidateFile(size, name) ==
    IF name \in RefusedNames THEN ErrFileViolation ELSE ""
HookValidateCapacityWithoutIncrease(size, name) ==
    IF size > FreeCapacity THEN ErrCapacity ELSE ""

\* ---------------------------------------------------------------- handlers

\* A setErrorStatus that forgets the message.
setErrorStatusNoMessage(t, e) == [t EXCEPT !.Status = "Error"]

\* setErrorStatus, without its Save.
setErrorStatus(t, e) == [t EXCEPT !.Status = "Error", !.Error = e]

\* os.Remove in place of os.RemoveAll: a directory that holds the download
\* is not empty and stays.
RemoveTempFolderIfEmpty(ds, t) == ds

\* RemoveTempFolder: os.RemoveAll(monitor.Task.Parent).
RemoveTempFolder(ds, t) == ds \ {t.Parent}

\* Following the last identifier of the list in place of the first.
RedirectedToLast(t, st) == [t EXCEPT !.GID = st.FollowedBy[Len(st.FollowedBy)]]

\* Update, line 81: the record follows the first identifier of the list.
Redirected(t, st) == [t EXCEPT !.GID = st.FollowedBy[1]]

\* The switch with "removed" falling into the error case.
DispatchRemovedAsError(s) ==
    CASE s = "complete" -> "Complete"
      [] s \in {"error", "removed"} -> "Error"
      [] s \in {"active", "waiting", "paused"} -> "continue"
      [] OTHER          -> "default"

\* The switch with "removed" among the statuses that keep the loop running.
DispatchRemovedContinues(s) ==
    CASE s = "complete" -> "Complete"
      [] s = "error"    -> "Error"
      [] s \in {"active", "waiting", "paused", "removed"} -> "continue"
      [] OTHER          -> "default"

\* A switch that handles "paused" like "removed": the pass stops.
DispatchPausedStops(s) ==
    CASE s = "complete" -> "Complete"
      [] s = "error"    -> "Error"
      [] s \in {"active", "waiting"} -> "continue"
      [] s \in {"paused", "removed"} -> "removed"
      [] OTHER          -> "default"

\* Update, lines 95-107: where the switch on the status string goes.
Dispatch(s) ==
    CASE s = "complete" -> "Complete"
      [] s = "error"    -> "Error"
      [] s \in {"active", "waiting", "paused"} -> "continue"
      [] s = "removed"  -> "removed"
      [] OTHER          -> "default"

\* A merge that assigns a numeric field only when it parsed.
ReconciledKeepingOnError(t, st) ==
    LET total      == ParseUint(st.TotalLength)
        downloaded == ParseUint(st.CompletedLength)
        speed      == Atoi(st.DownloadSpeed)
    IN  [t EXCEPT
            !.GID = st.Gid,
            !.Status = getStatus(st.Status),
            !.TotalSize = IF total.err # "" THEN @ ELSE total.val,
            !.DownloadedSize = IF downloaded.err # "" THEN @ ELSE downloaded.val,
            !.Parent = st.Dir,
            !.Speed = IF speed.err # "" THEN @ ELSE speed.val,
            !.Path = IF Len(st.Files) > 0 THEN st.Files[1] ELSE t.Path ]

\* UpdateTaskInfo, lines 115-141: the record after the response is merged in.
\* (The serialized snapshot of line 143 is not carried in the record.)
Reconciled(t, st) ==
    LET total      == ParseUint(st.TotalLength)
        downloaded == ParseUint(st.CompletedLength)
        speed      == Atoi(st.DownloadSpeed)
    IN  [t EXCEPT
            !.GID = st.Gid,
            !.Status = getStatus(st.Status),
            !.TotalSize = IF total.err # "" THEN 0 ELSE total.val,
            !.DownloadedSize = IF downloaded.err # "" THEN 0 ELSE downloaded.val,
            !.Parent = st.Dir,
            !.Speed = IF speed.err # "" THEN 0 ELSE speed.val,
            !.Path = IF Len(st.Files) > 0 THEN st.Files[1] ELSE t.Path ]

\* UpdateTaskInfo, line 149: whether the merge changed the size or the path.
SizeOrPathChanged(o, t) ==
    o.TotalSize # t.TotalSize \/ o.Path # t.Path

\* ValidateFile: the error it returns ("" for nil), given whether the owner is
\* found and whether the file system can be created.
ValidateFile(t, ownerFound, fsOk) ==
    LET size == t.TotalSize
        name == Base(t.Path)
    IN  IF ~ownerFound THEN ErrUserNotFound
        ELSE IF ~fsOk THEN ErrFileSystem
        ELSE IF HookValidateFile(size, name) # "" THEN HookValidateFile(size, name)
        ELSE HookValidateCapacityWithoutIncrease(size, name)

\* A job whose destination is the whole download path under the destination
\* directory, not its base name.
TransferTaskFullPath(t) ==
    [ owner |-> t.UserID, dst |-> t.Dst \o t.Path,
      src |-> t.Path, parent |-> t.Parent, id |-> NewJobID ]

\* Complete, lines 246-251: the arguments of NewTransferTask.
TransferTask(t) ==
    [ owner |-> t.UserID, dst |-> Join(t.Dst, Base(t.Path)),
      src |-> t.Path, parent |-> t.Parent, id |-> NewJobID ]

\* ------------------------------------------------------------ NewMonitor

\* NewMonitor, line 43: Subscribe under the identifier the record holds now.
\* (Line 42 has started the Loop goroutine: both run from Init on.)
NewMonitor ==
    /\ nm = "subscribe"
    /\ subs' = Subscribe(subs, task.GID)
    /\ nm' = "done"
    /\ UNCHANGED << task, db, saved, pc, unsubKey, interval, status, err, origin, ret,
                    log, pending, passes, active, dirs, timers, cancels, jobs,
                    calls >>

\* Dispatcher.Notify for an identifier with a subscriber: the send blocks on
\* the unbuffered inbox until Loop receives it.
Notify ==
    /\ subs # {}
    /\ pending < MaxPending
    /\ pending' = pending + 1
    /\ UNCHANGED << task, db, saved, subs, nm, pc, unsubKey, interval, status,
                    err, origin, ret, log, passes, active, dirs, timers, cancels, jobs,
                    calls >>

\* ------------------------------------------------------------------ Loop

\* A Loop whose first wait already lasts the configured interval.
LoopEntryFullInterval ==
    /\ pc = "entry"
    /\ unsubKey' = task.GID
    /\ interval' = DefaultInterval
    /\ pc' = "select"
    /\ UNCHANGED << task, db, saved, subs, nm, status, err, origin, ret, log,
                    pending, passes, active, dirs, timers, cancels, jobs, calls >>

\* Loop, lines 48-51: the deferred call's argument is evaluated now, and the
\* first wait is of zero length.
LoopEntry ==
    /\ pc = "entry"
    /\ unsubKey' = task.GID
    /\ interval' = 0
    /\ pc' = "select"
    /\ UNCHANGED << task, db, saved, subs, nm, status, err, origin, ret, log,
                    pending, passes, active, dirs, timers, cancels, jobs, calls >>

\* A Loop that takes a case of its select while Update is still running (as
\* when Update is started in a goroutine of its own).
AtSelectOrBusy == pc \notin {"entry", "done"}

\* Where Loop can take a case of its select.
AtSelect == pc = "select"

\* A pass begins: Update is called (trigger: what woke the select).
BeginPass(trigger) ==
    /\ passes < MaxPasses
    /\ passes' = passes + 1
    /\ active' = active + 1
    /\ pc' = "query"
    /\ status' = NoStatus
    /\ err' = ""
    /\ origin' = NoOrigin
    /\ ret' = FALSE
    /\ log' = <<trigger>>

\* Loop, lines 55-58: a wake event is received.
LoopWake ==
    /\ AtSelect
    /\ pending > 0
    /\ pending' = pending - 1
    /\ BeginPass("wake")
    /\ UNCHANGED << task, db, saved, subs, nm, unsubKey, interval, dirs,
                    timers, cancels, jobs, calls >>

\* Loop, lines 59-63: the timer of the current interval fires.
LoopTick ==
    /\ AtSelect
    /\ interval' = DefaultInterval
    /\ BeginPass("tick")
    /\ UNCHANGED << task, db, saved, subs, nm, unsubKey, pending, dirs,
                    timers, cancels, jobs, calls >>

\* Loop, lines 56-58 and 61-63: Update returned false, back to the select.
LoopContinue ==
    /\ pc = "ret"
    /\ ~ret
    /\ pc' = "select"
    /\ active' = active - 1
    /\ status' = NoStatus
    /\ err' = ""
    /\ origin' = NoOrigin
    /\ log' = <<>>
    /\ UNCHANGED << task, db, saved, subs, nm, unsubKey, interval, ret, pending,
                    passes, dirs, timers, cancels, jobs, calls >>

\* Loop, lines 57/62 and 48: Update returned true; the deferred Unsubscribe runs.
LoopStop ==
    /\ pc = "ret"
    /\ ret
    /\ subs' = Unsubscribe(subs, unsubKey)
    /\ pc' = "done"
    /\ active' = active - 1
    /\ UNCHANGED << task, db, saved, nm, unsubKey, interval, status, err, origin, ret,
                    log, pending, passes, dirs, timers, cancels, jobs, calls >>

\* ---------------------------------------------------------------- Update

\* Update, line 70: Instance.Status answers with an error or with a response.
Query ==
    /\ pc = "query"
    /\ \/ \E e \in QueryErrors :
            /\ err' = e
            /\ pc' = "qfail"
            /\ UNCHANGED status
       \/ \E st \in Responses(task.GID) :
            /\ status' = st
            /\ pc' = IF Len(st.FollowedBy) > 0 THEN "redirect" ELSE "reconcile"
            /\ UNCHANGED err
    /\ UNCHANGED << task, db, saved, subs, nm, unsubKey, interval, origin, ret,
                    log, pending, passes, active, dirs, timers, cancels, jobs,
                    calls >>

\* Update, lines 71-76: the query failed.
QueryFailed ==
    /\ pc = "qfail"
    /\ \E ok \in BOOLEAN :
        /\ task' = setErrorStatus(task, err)
        /\ saved' = task'
        /\ db' = Save(task', ok)
    /\ dirs' = RemoveTempFolder(dirs, task')
    /\ log' = log \o <<"seterr", "save", "rmall">>
    /\ ret' = TRUE
    /\ pc' = "ret"
    /\ UNCHANGED << subs, nm, unsubKey, interval, status, err, origin, pending, passes,
                    active, timers, cancels, jobs, calls >>

\* Update, lines 79-84: the response names the identifiers that follow.
Redirect ==
    /\ pc = "redirect"
    /\ \E ok \in BOOLEAN :
        /\ task' = Redirected(task, status)
        /\ saved' = task'
        /\ db' = Save(task', ok)
    /\ log' = log \o <<"redirect", "save">>
    /\ ret' = FALSE
    /\ pc' = "ret"
    /\ UNCHANGED << subs, nm, unsubKey, interval, status, err, origin, pending, passes,
                    active, dirs, timers, cancels, jobs, calls >>

\* An UpdateTaskInfo that returns the error of a failed Save to Update.
AfterSaveReturningError(ok, changed) ==
    IF ~ok THEN "vfail" ELSE IF changed THEN "validate" ELSE "dispatch"

\* UpdateTaskInfo, lines 145-151: where the pass goes after the Save. A failed
\* Save returns nil at once; otherwise a changed size or path is validated.
AfterSave(ok, changed) ==
    IF ok /\ changed THEN "validate" ELSE "dispatch"

\* UpdateTaskInfo, lines 112-149: merge, save, and decide whether to validate.
Reconcile ==
    /\ pc = "reconcile"
    /\ origin' = [TotalSize |-> task.TotalSize, Path |-> task.Path]
    /\ \E ok \in BOOLEAN :
        /\ task' = Reconciled(task, status)
        /\ saved' = task'
        /\ db' = Save(task', ok)
        /\ pc' = AfterSave(ok, SizeOrPathChanged(origin', task'))
        /\ log' = log \o <<"reconcile", IF ok THEN "save" ELSE "save failed">>
    /\ UNCHANGED << subs, nm, unsubKey, interval, status, err, ret, pending,
                    passes, active, dirs, timers, cancels, jobs, calls >>

\* A Cancel that returns when the engine refuses the request, without starting
\* the goroutine.
CancelOnlyOnSuccess(cancelOk) ==
    /\ cancels' = Append(cancels, [gid |-> task.GID, ok |-> cancelOk])
    /\ timers' = IF cancelOk THEN timers + 1 ELSE timers

\* Cancel, lines 163-172: ask the engine to cancel (the request may fail) and
\* start the goroutine that removes the temp directory after the grace period.
Cancel(cancelOk) ==
    /\ cancels' = Append(cancels, [gid |-> task.GID, ok |-> cancelOk])
    /\ timers' = timers + 1

\* UpdateTaskInfo, lines 151-155: ValidateFile, and Cancel when it fails.
Validate ==
    /\ pc = "validate"
    /\ \E ownerFound \in BOOLEAN, fsOk \in BOOLEAN :
        LET e == ValidateFile(task, ownerFound, fsOk) IN
        IF e = ""
        THEN /\ pc' = "dispatch"
             /\ log' = Append(log, "validate")
             /\ UNCHANGED << err, cancels, timers >>
        ELSE /\ \E cancelOk \in BOOLEAN : Cancel(cancelOk)
             /\ err' = e
             /\ pc' = "vfail"
             /\ log' = log \o <<"validate", "cancel">>
    /\ UNCHANGED << task, db, saved, subs, nm, unsubKey, interval, status,
                    origin, ret, pending, passes, active, dirs, jobs, calls >>

\* An Update that removes the temp directory when UpdateTaskInfo fails, as it
\* does when the query fails.
ValidationFailedWithCleanup ==
    /\ pc = "vfail"
    /\ \E ok \in BOOLEAN :
        /\ task' = setErrorStatus(task, err)
        /\ saved' = task'
        /\ db' = Save(task', ok)
    /\ dirs' = RemoveTempFolder(dirs, task')
    /\ log' = log \o <<"seterr", "save", "rmall">>
    /\ ret' = TRUE
    /\ pc' = "ret"
    /\ UNCHANGED << subs, nm, unsubKey, interval, status, err, origin, pending, passes,
                    active, timers, cancels, jobs, calls >>

\* Update, lines 87-91: UpdateTaskInfo returned an error.
ValidationFailed ==
    /\ pc = "vfail"
    /\ \E ok \in BOOLEAN :
        /\ task' = setErrorStatus(task, err)
        /\ saved' = task'
        /\ db' = Save(task', ok)
    /\ log' = log \o <<"seterr", "save">>
    /\ ret' = TRUE
    /\ pc' = "ret"
    /\ UNCHANGED << subs, nm, unsubKey, interval, status, err, origin, pending, passes,
                    active, dirs, timers, cancels, jobs, calls >>

\* A Complete that returns false after it has submitted the job.
CompleteAndContinue ==
    /\ pc = "dispatch"
    /\ Dispatch(status.Status) = "Complete"
    /\ calls' = [calls EXCEPT !.Complete = @ + 1]
    /\ \E jobOk \in BOOLEAN, ok \in BOOLEAN :
        IF jobOk
        THEN /\ jobs' = Append(jobs, TransferTask(task))
             /\ task' = [task EXCEPT !.TaskID = TransferTask(task).id]
             /\ saved' = task'
             /\ db' = Save(task', ok)
             /\ log' = log \o <<"complete", "submit", "taskid", "save">>
             /\ ret' = FALSE
        ELSE /\ task' = setErrorStatus(task, ErrTransferTask)
             /\ saved' = task'
             /\ db' = Save(task', ok)
             /\ log' = log \o <<"complete", "seterr", "save">>
             /\ ret' = TRUE
             /\ UNCHANGED jobs
    /\ pc' = "ret"
    /\ UNCHANGED << subs, nm, unsubKey, interval, status, err, origin, pending,
                    passes, active, dirs, timers, cancels >>

\* A Complete that removes the temp directory when the job cannot be
\* constructed, as the Error handler does.
CompleteCleaningOnFailure ==
    /\ pc = "dispatch"
    /\ Dispatch(status.Status) = "Complete"
    /\ calls' = [calls EXCEPT !.Complete = @ + 1]
    /\ \E jobOk \in BOOLEAN, ok \in BOOLEAN :
        IF jobOk
        THEN /\ jobs' = Append(jobs, TransferTask(task))
             /\ task' = [task EXCEPT !.TaskID = TransferTask(task).id]
             /\ saved' = task'
             /\ db' = Save(task', ok)
             /\ log' = log \o <<"complete", "submit", "taskid", "save">>
             /\ UNCHANGED dirs
        ELSE /\ task' = setErrorStatus(task, ErrTransferTask)
             /\ saved' = task'
             /\ db' = Save(task', ok)
             /\ dirs' = RemoveTempFolder(dirs, task')
             /\ log' = log \o <<"complete", "seterr", "save">>
             /\ UNCHANGED jobs
    /\ ret' = TRUE
    /\ pc' = "ret"
    /\ UNCHANGED << subs, nm, unsubKey, interval, status, err, origin, pending, passes,
                    active, timers, cancels >>

\* Complete, lines 244-265; NewTransferTask may fail.
Complete ==
    /\ pc = "dispatch"
    /\ Dispatch(status.Status) = "Complete"
    /\ calls' = [calls EXCEPT !.Complete = @ + 1]
    /\ \E jobOk \in BOOLEAN, ok \in BOOLEAN :
        IF jobOk
        THEN /\ jobs' = Append(jobs, TransferTask(task))
             /\ task' = [task EXCEPT !.TaskID = TransferTask(task).id]
             /\ saved' = task'
             /\ db' = Save(task', ok)
             /\ log' = log \o <<"complete", "submit", "taskid", "save">>
        ELSE /\ task' = setErrorStatus(task, ErrTransferTask)
             /\ saved' = task'
             /\ db' = Save(task', ok)
             /\ log' = log \o <<"complete", "seterr", "save">>
             /\ UNCHANGED jobs
    /\ ret' = TRUE
    /\ pc' = "ret"
    /\ UNCHANGED << subs, nm, unsubKey, interval, status, err, origin, pending, passes,
                    active, dirs, timers, cancels >>

\* Error, lines 210-217.
Error ==
    /\ pc = "dispatch"
    /\ Dispatch(status.Status) = "Error"
    /\ calls' = [calls EXCEPT !.Error = @ + 1]
    /\ \E ok \in BOOLEAN :
        /\ task' = setErrorStatus(task, status.ErrorMessage)
        /\ saved' = task'
        /\ db' = Save(task', ok)
    /\ dirs' = RemoveTempFolder(dirs, task')
    /\ log' = log \o <<"error", "seterr", "save", "rmall">>
    /\ ret' = TRUE
    /\ pc' = "ret"
    /\ UNCHANGED << subs, nm, unsubKey, interval, status, err, origin, pending, passes,
                    active, timers, cancels, jobs >>

\* Update, lines 100-101.
KeepMonitoring ==
    /\ pc = "dispatch"
    /\ Dispatch(status.Status) = "continue"
    /\ ret' = FALSE
    /\ pc' = "ret"
    /\ UNCHANGED << task, db, saved, subs, nm, unsubKey, interval, status, err, origin,
                    log, pending, passes, active, dirs, timers, cancels, jobs,
                    calls >>

\* Update, lines 102-103.
Removed ==
    /\ pc = "dispatch"
    /\ Dispatch(status.Status) = "removed"
    /\ ret' = TRUE
    /\ pc' = "ret"
    /\ UNCHANGED << task, db, saved, subs, nm, unsubKey, interval, status, err, origin,
                    log, pending, passes, active, dirs, timers, cancels, jobs,
                    calls >>

\* Update, lines 104-106.
UnknownStatus ==
    /\ pc = "dispatch"
    /\ Dispatch(status.Status) = "default"
    /\ ret' = TRUE
    /\ pc' = "ret"
    /\ UNCHANGED << task, db, saved, subs, nm, unsubKey, interval, status, err, origin,
                    log, pending, passes, active, dirs, timers, cancels, jobs,
                    calls >>

\* Cancel's goroutine, lines 167-172: the grace period is over.
GraceElapsed ==
    /\ timers > 0
    /\ timers' = timers - 1
    /\ dirs' = RemoveTempFolder(dirs, task)
    /\ UNCHANGED << task, db, saved, subs, nm, pc, unsubKey, interval, status,
                    err, origin, ret, log, pending, passes, active, cancels, jobs,
                    calls >>

Next ==
    \/ NewMonitor
    \/ Notify
    \/ LoopEntry
    \/ LoopWake
    \/ LoopTick
    \/ LoopContinue
    \/ LoopStop
    \/ Query
    \/ QueryFailed
    \/ Redirect
    \/ Reconcile
    \/ Validate
    \/ ValidationFailed
    \/ Complete
    \/ Error
    \/ KeepMonitoring
    \/ Removed
    \/ UnknownStatus
    \/ GraceElapsed

Spec == Init /\ [][Next]_vars

\* Update, line 70, with the engine's answers drawn from SampleResponses.
QuerySample ==
    /\ pc = "query"
    /\ \/ \E e \in QueryErrors :
            /\ err' = e
            /\ pc' = "qfail"
            /\ UNCHANGED status
       \/ \E st \in SampleResponses(task.GID) :
            /\ status' = st
            /\ pc' = IF Len(st.FollowedBy) > 0 THEN "redirect" ELSE "reconcile"
            /\ UNCHANGED err
    /\ UNCHANGED << task, db, saved, subs, nm, unsubKey, interval, origin, ret,
                    log, pending, passes, active, dirs, timers, cancels, jobs,
                    calls >>

\* The steps of the Loop goroutine: its select (the timer of the current
\* interval always fires in the end), Update and the deferred Unsubscribe.
LoopStep ==
    \/ LoopEntry
    \/ LoopWake
    \/ LoopTick
    \/ LoopContinue
    \/ LoopStop
    \/ QuerySample
    \/ QueryFailed
    \/ Redirect
    \/ Reconcile
    \/ Validate
    \/ ValidationFailed
    \/ Complete
    \/ Error
    \/ KeepMonitoring
    \/ Removed
    \/ UnknownStatus

FairNext ==
    \/ NewMonitor
    \/ Notify
    \/ GraceElapsed
    \/ LoopStep

\* The Loop goroutine is scheduled whenever it can take a step, and its timer
\* fires: the goroutine does not stay forever at a step it can take.
FairSpec == Init /\ [][FairNext]_vars /\ WF_vars(LoopStep)

\* ------------------------------------------------------------------ claims

\* The current pass has ended (Update has returned, or Loop has ended after it).
PassEnded == pc \in {"ret", "done"}
\* The current pass got a response from the engine.
Answered == status # NoStatus
NoRedirect == Len(status.FollowedBy) = 0
\* UpdateTaskInfo has merged the response of the current pass.
Merged == "reconcile" \in Range(log)
\* UpdateTaskInfo returned an error in the current pass.
ValidationFailedInPass == Answered /\ err # ""
ValidationErrors == {ErrUserNotFound, ErrFileSystem, ErrFileViolation, ErrCapacity}
TerminalStatuses == {"Complete", "Error", "Canceled", "Unknown"}
\* The constraint a record's size or name violates ("" for none).
Violation(t) ==
    IF HookValidateFile(t.TotalSize, Base(t.Path)) # ""
    THEN HookValidateFile(t.TotalSize, Base(t.Path))
    ELSE HookValidateCapacityWithoutIncrease(t.TotalSize, Base(t.Path))
\* A decimal numeral: an optional sign, then digits.
IsNumber(s) ==
    IsDigits(IF Len(s) > 0 /\ s[1] \in {"+", "-"} THEN Tail(s) ELSE s)

\* C1: once Update has returned "stop" and Loop has ended, the Dispatcher holds
\* no subscription for the Monitor, in every interleaving of NewMonitor's
\* Subscribe with the Loop goroutine.
C1_NoSubscriptionAfterLoop == pc = "done" => subs = {}

\* C2: passes of one Monitor never overlap: at most one Update is running at
\* any time, whatever wake events and timer expirations arrive.
C2_PassesNeverOverlap ==
    /\ active <= 1
    /\ active = 1 <=> pc \notin {"entry", "select", "done"}

\* C2 witness: a pass started by a wake event is running while the next wake
\* event is already waiting on the inbox.
C2_Witness ==
    /\ active = 1 /\ pc = "dispatch" /\ log[1] = "wake" /\ pending > 0

\* C3 as stated: a pass that reports "complete" ends the monitoring with exactly
\* one Complete invocation and exactly one submitted job.
C3_ExactlyOneJob ==
    (PassEnded /\ Answered /\ NoRedirect /\ status.Status = "complete")
        => (ret /\ calls.Complete = 1 /\ Len(jobs) = 1)

\* C3 amended: a pass that reports "complete" without a redirect ends the
\* monitoring; if its validation failed, Complete is not invoked and no job is
\* submitted; otherwise Complete is invoked exactly once and exactly one job is
\* submitted, unless the job's construction fails, and then none. Over the
\* Monitor's life Complete runs at most once and at most one job is submitted.
C3_CompleteStopsWithAtMostOneJob ==
    /\ calls.Complete <= 1
    /\ Len(jobs) <= 1
    /\ (PassEnded /\ Answered /\ NoRedirect /\ status.Status = "complete")
        => /\ ret
           /\ IF ValidationFailedInPass
              THEN calls.Complete = 0 /\ jobs = <<>>
              ELSE /\ calls.Complete = 1
                   /\ Len(jobs) = IF task.Error = ErrTransferTask THEN 0 ELSE 1

\* C3 witness: the second pass reports "complete"; Loop has ended after one
\* Complete and one job.
C3_Witness ==
    /\ pc = "done" /\ passes = 2 /\ status.Status = "complete"
    /\ calls.Complete = 1 /\ Len(jobs) = 1

\* C4: a response with a non-empty followed-by list only replaces the
\* identifier by the first of the list and saves; the pass returns "continue",
\* and merges, validates and dispatches nothing, whatever the status string.
C4_RedirectStep ==
    (pc = "redirect" /\ pc' # "redirect")
        => /\ task' = [task EXCEPT !.GID = Head(status.FollowedBy)]
           /\ saved' = task'
           /\ pc' = "ret" /\ ret' = FALSE
           /\ UNCHANGED << status, err, dirs, timers, cancels, jobs, calls >>
C4_RedirectState ==
    (Answered /\ ~NoRedirect)
        => /\ pc \in {"redirect", "ret"}
           /\ pc = "ret" =>
                /\ ~ret
                /\ log = <<log[1], "redirect", "save">>
                /\ task.GID = Head(status.FollowedBy)
C4_RedirectOnlyReplacesIdentifier ==
    [](C4_RedirectState) /\ [][C4_RedirectStep]_vars

\* C4 witness: a response that reports "complete" and a two-element
\* followed-by list has been handled; the pass returns "continue".
C4_Witness ==
    /\ pc = "ret" /\ ~ret /\ status.Status = "complete"
    /\ status.FollowedBy = <<"g1", "g0">> /\ task.GID = "g1"
    /\ task.Status = "Ready" /\ task.TotalSize = 0

\* C5: when the status query fails, the record becomes Error with the query's
\* reason and is handed to Save, the temp directory is removed in the same
\* pass, the pass returns "stop", and nothing else happens in the pass.
C5_QueryFailure ==
    /\ pc = "qfail" => err \in QueryErrors
    /\ (PassEnded /\ err \in QueryErrors)
        => /\ ret
           /\ task.Status = "Error" /\ task.Error = err
           /\ saved = task
           /\ task.Parent \notin dirs
           /\ log = <<log[1], "seterr", "save", "rmall">>
           /\ cancels = <<>> /\ timers = 0 /\ jobs = <<>>
           /\ calls = [Complete |-> 0, Error |-> 0]

\* C5 witness: the query of the second pass fails, after the first pass moved
\* the record to Dir1; Dir1 is gone.
C5_Witness ==
    /\ pc = "done" /\ err \in QueryErrors /\ passes = 2
    /\ task.Parent = Dir1 /\ dirs = {Dir0}

\* C6 as stated: a pass that reports "error" leaves the record Error with the
\* engine's message, the temp directory removed, no job, and stops.
C6_EngineError ==
    (PassEnded /\ Answered /\ NoRedirect /\ status.Status = "error")
        => /\ ret
           /\ task.Status = "Error" /\ task.Error = status.ErrorMessage
           /\ task.Parent \notin dirs
           /\ jobs = <<>>

\* C6 amended: a pass that reports "error" without a redirect stops with the
\* record Error and no job; unless its validation failed, the message is the
\* engine's and the temp directory is removed in the pass. When the validation
\* failed, the message is the validation's and the Error handler is not run.
C6_EngineErrorUnlessValidationFails ==
    (PassEnded /\ Answered /\ NoRedirect /\ status.Status = "error")
        => /\ ret
           /\ task.Status = "Error"
           /\ jobs = <<>>
           /\ IF ValidationFailedInPass
              THEN task.Error = err /\ calls.Error = 0
              ELSE /\ task.Error = status.ErrorMessage
                   /\ task.Parent \notin dirs
                   /\ calls.Error = 1

\* C6 witness: the engine reported "disk full"; the record holds it and the
\* reported directory is gone.
C6_Witness ==
    /\ pc = "done" /\ status.Status = "error"
    /\ status.ErrorMessage = "disk full" /\ task.Error = "disk full"
    /\ task.Parent = Dir1 /\ Dir1 \notin dirs

\* C7: whenever the merged size or path changed and violates the file
\* constraint or the capacity, the pass asks the engine to cancel, marks the
\* record Error with the validation's message and stops.
C7_ViolationIsCancelled ==
    (PassEnded /\ Merged /\ SizeOrPathChanged(origin, task)
       /\ Violation(task) # "")
        => /\ ret
           /\ cancels # <<>>
           /\ task.Status = "Error" /\ task.Error = err /\ err # ""

\* C8: a total length, completed length or download speed that is no number is
\* stored as zero, each on its own; the other fields are merged all the same,
\* and the pass goes on to the dispatch on the status.
C8_MalformedNumbersAreZero ==
    Merged =>
        /\ ~IsNumber(status.TotalLength) => task.TotalSize = 0
        /\ ~IsNumber(status.CompletedLength) => task.DownloadedSize = 0
        /\ ~IsNumber(status.DownloadSpeed) => task.Speed = 0
        /\ status.TotalLength \in {One, Nine}
              => task.TotalSize = NatOf(status.TotalLength)
        /\ status.CompletedLength = One => task.DownloadedSize = 1
        /\ status.DownloadSpeed = One => task.Speed = 1
        /\ task.GID = status.Gid
        /\ task.Parent = status.Dir
        /\ Len(status.Files) > 0 => task.Path = status.Files[1]
        /\ task.Status \in {getStatus(status.Status), "Error"}
        /\ err \in ValidationErrors \cup {""}
        /\ (PassEnded /\ err = "") =>
              /\ ret = (status.Status \notin {"active", "waiting", "paused"})
              /\ calls.Complete = IF status.Status = "complete" THEN 1 ELSE 0
              /\ calls.Error = IF status.Status = "error" THEN 1 ELSE 0

\* C8 witness: only the completed length is malformed; it is stored as zero
\* beside the parsed total and speed, and the pass dispatched to "continue".
C8_Witness ==
    /\ pc = "ret" /\ ~ret /\ Merged /\ passes = 2
    /\ status.TotalLength = One /\ status.CompletedLength = Empty
    /\ status.DownloadSpeed = One
    /\ task.TotalSize = 1 /\ task.DownloadedSize = 0 /\ task.Speed = 1

\* C9 as stated: a pass that reports "removed" or an unknown status stops
\* silently: no error message, no Error status, no cleanup done or scheduled,
\* no job.
C9_SilentStop ==
    (PassEnded /\ Answered /\ NoRedirect
       /\ status.Status \notin {"active", "waiting", "paused", "complete", "error"})
        => /\ ret
           /\ task.Error = "" /\ task.Status # "Error"
           /\ dirs = Dirs /\ timers = 0 /\ cancels = <<>>
           /\ jobs = <<>>

\* C9 amended: a pass that reports "removed" or an unknown status without a
\* redirect stops and submits no job; unless its validation failed, it is
\* silent (no message, status not Error, no cleanup done or scheduled). When
\* the validation failed, the record is Error with the validation's message and
\* the engine is asked to cancel.
C9_SilentStopUnlessValidationFails ==
    (PassEnded /\ Answered /\ NoRedirect
       /\ status.Status \notin {"active", "waiting", "paused", "complete", "error"})
        => /\ ret
           /\ jobs = <<>>
           /\ calls = [Complete |-> 0, Error |-> 0]
           /\ IF ValidationFailedInPass
              THEN /\ task.Status = "Error" /\ task.Error = err
                   /\ Len(cancels) = 1
              ELSE /\ task.Error = "" /\ task.Status = getStatus(status.Status)
                   /\ dirs = Dirs /\ timers = 0 /\ cancels = <<>>

\* C9 witness: the engine reported "removed" (with a message); Loop has ended
\* and the record is Canceled with no message.
C9_Witness ==
    /\ pc = "done" /\ status.Status = "removed"
    /\ status.ErrorMessage = "disk full"
    /\ task.Status = "Canceled" /\ task.Error = "" /\ dirs = Dirs

\* C10 as stated: once a terminal status is persisted, the persisted status
\* never changes again.
C10_TerminalIsFinal ==
    [][db.Status \in TerminalStatuses => db.Status' = db.Status]_vars

\* C10 amended: once a terminal status is written (in memory or persisted),
\* the status never returns to Ready, Downloading or Paused; its only later
\* change is to Error, within the same pass (validation failure, or failure to
\* construct the transfer job), and Error is never changed.
C10_StatusStep(old, new) ==
    old \in TerminalStatuses
        => \/ new = old
           \/ new = "Error" /\ active = 1 /\ passes' = passes
C10_TerminalOnlyTurnsError ==
    [][ /\ C10_StatusStep(db.Status, db.Status')
        /\ C10_StatusStep(task.Status, task.Status') ]_vars

\* C10 witness: Complete was persisted, then the job's construction failed and
\* Error was persisted in its place.
C10_Witness ==
    /\ pc = "done" /\ status.Status = "complete"
    /\ task.Error = ErrTransferTask /\ db.Status = "Error"
    /\ db.Error = ErrTransferTask

\* C11: the wait that precedes the first pass is of zero length: while no pass
\* has happened the loop waits with interval 0. The wait takes the configured
\* interval only in the step that begins a timer-triggered pass, so every wait
\* of the configured length follows a timer-triggered pass.
C11_WaitStep ==
    /\ interval' # interval
        => /\ interval' = DefaultInterval
           /\ passes' = passes + 1
           /\ log' = <<"tick">>
    /\ (passes = 0 /\ passes' = 1) => interval = 0
C11_FirstWaitIsZero ==
    /\ [](passes = 0 => interval = 0)
    /\ [][C11_WaitStep]_vars

\* C11 witness: the first pass was begun by the timer of the zero-length wait,
\* and only now the configured interval is set for the next wait.
C11_Witness ==
    /\ passes = 1 /\ pc = "query" /\ log = <<"tick">>
    /\ interval = DefaultInterval

\* C12: whenever a pass has changed the record's total size or primary path,
\* validation has run in that same pass before the pass dispatches on the
\* status (and so before Complete or any later pass sees the new value).
C12_ChangeIsValidatedInPass ==
    (Merged /\ pc \in {"dispatch", "ret", "done"}
       /\ SizeOrPathChanged(origin, task))
        => "validate" \in Range(log)

\* The Save of UpdateTaskInfo failed in the current pass.
SaveFailedInPass == "save failed" \in Range(log)

\* C13: when the Save inside UpdateTaskInfo fails, UpdateTaskInfo still reports
\* success: no validation, no error, no cancel request; the record is not marked
\* Error by the failure, and the pass dispatches on the reported status as it
\* does after a successful Save (continue for active, waiting and paused, the
\* Complete handler for complete, the Error handler for error, stop otherwise).
C13_SaveFailureIsSwallowed ==
    SaveFailedInPass =>
        /\ pc \in {"dispatch", "ret", "done"}
        /\ err = "" /\ "validate" \notin Range(log)
        /\ cancels = <<>> /\ timers = 0
        /\ pc = "dispatch"
            => task.Status = getStatus(status.Status) /\ task.Error = ""
        /\ PassEnded =>
            CASE status.Status \in {"active", "waiting", "paused"} ->
                    /\ ~ret /\ calls = [Complete |-> 0, Error |-> 0]
                    /\ task.Status = getStatus(status.Status) /\ task.Error = ""
              [] status.Status = "complete" ->
                    /\ ret /\ calls = [Complete |-> 1, Error |-> 0]
                    /\ task.Error \in {"", ErrTransferTask}
              [] status.Status = "error" ->
                    /\ ret /\ calls = [Complete |-> 0, Error |-> 1]
                    /\ task.Error = status.ErrorMessage
              [] OTHER ->
                    /\ ret /\ calls = [Complete |-> 0, Error |-> 0]
                    /\ task.Status = getStatus(status.Status) /\ task.Error = ""

\* C13 witness: the Save of a pass that reports "active" with a new size
\* failed; the pass has returned "continue", the record in memory holds the new
\* size and the persisted one does not.
C13_Witness ==
    /\ pc = "ret" /\ ~ret /\ SaveFailedInPass
    /\ status.Status = "active"
    /\ task.TotalSize = 9 /\ db.TotalSize = 0

\* C14: in a pass whose validation failed the pass itself removes nothing:
\* one cancel request was made and one deferred removal scheduled; while that
\* removal has not fired every temp directory still exists, and once it has
\* fired exactly the task's temp directory is gone. The directories change
\* only in the step in which the deferred removal fires.
C14_RemovalStep ==
    dirs' # dirs =>
        /\ timers' = timers - 1
        /\ dirs' = dirs \ {task.Parent}
        /\ UNCHANGED << pc, log, task >>
C14_OnlyDeferredRemoval ==
    /\ []((ValidationFailedInPass /\ pc \in {"vfail", "ret", "done"})
            => /\ "rmall" \notin Range(log)
               /\ Len(cancels) = 1 /\ timers <= 1
               /\ timers = 1 => dirs = Dirs
               /\ timers = 0 => dirs = Dirs \ {task.Parent})
    /\ [][ValidationFailedInPass => C14_RemovalStep]_vars

\* C14 witness: the loop has ended after a validation failure while the
\* deferred removal is still waiting and the temp directory still exists.
C14_Witness ==
    /\ pc = "done" /\ ValidationFailedInPass
    /\ timers = 1 /\ task.Parent \in dirs
    /\ task.Status = "Error"

\* C15: every cancel request, whether the engine accepts or refuses it,
\* schedules exactly one deferred removal; there is never more than one, and
\* the step in which the grace period ends removes the task's temp directory,
\* so after a cancel the directory is present exactly while the removal waits.
C15_CancelStep ==
    /\ Len(cancels') > Len(cancels)
        => /\ Len(cancels') = Len(cancels) + 1
           /\ timers' = timers + 1
    /\ timers' > timers => Len(cancels') = Len(cancels) + 1
    /\ timers' < timers
        => /\ timers' = timers - 1
           /\ task.Parent \notin dirs'
C15_CancelSchedulesRemoval ==
    /\ [](cancels # <<>>
            => /\ Len(cancels) = 1
               /\ \/ timers = 1 /\ task.Parent \in dirs
                  \/ timers = 0 /\ task.Parent \notin dirs)
    /\ [][C15_CancelStep]_vars

\* C15 witness: the engine refused the cancel request, the grace period is
\* over and the temp directory has been removed.
C15_Witness ==
    /\ cancels # <<>> /\ ~cancels[1].ok
    /\ timers = 0 /\ task.Parent \notin dirs

\* The Complete handler of the current pass could not construct the job.
JobConstructionFailed ==
    /\ "complete" \in Range(log)
    /\ "submit" \notin Range(log)

\* C16: when the engine reports "complete" and the transfer job cannot be
\* constructed, the record is Error with the construction's message, no job
\* is submitted, the record's job id stays unset, no temp directory is removed
\* and no removal is scheduled, and monitoring stops.
C16_JobConstructionFailure ==
    (PassEnded /\ JobConstructionFailed) =>
        /\ status.Status = "complete"
        /\ task.Status = "Error" /\ task.Error = ErrTransferTask
        /\ saved = task
        /\ jobs = <<>> /\ task.TaskID = "" /\ db.TaskID = ""
        /\ dirs = Dirs /\ timers = 0 /\ cancels = <<>>
        /\ ret

\* C16 witness: the loop has ended after a "complete" whose job could not be
\* constructed; the Error is persisted and the temp directory is still there.
C16_Witness ==
    /\ pc = "done" /\ JobConstructionFailed
    /\ db.Status = "Error" /\ db.Error = ErrTransferTask
    /\ task.Parent = Dir1 /\ Dir1 \in dirs /\ subs = {}

\* The Complete handler of the current pass submitted a job.
JobSubmitted == "submit" \in Range(log)

\* C17: after a successful Complete the one submitted job has the record's
\* owner, the record's path as source file, the record's parent as source
\* directory, and as destination the record's destination directory followed
\* by the last element of the path; path and parent are those the same pass
\* merged from the response. The job's id is written to the record and saved
\* after the submission, and the pass removes no temp directory and schedules
\* no removal.
C17_SubmittedJob ==
    (PassEnded /\ JobSubmitted) =>
        /\ Merged /\ status.Status = "complete"
        /\ Len(jobs) = 1
        /\ jobs[1].owner = NewDownload.UserID /\ task.UserID = NewDownload.UserID
        /\ jobs[1].src = task.Path
        /\ jobs[1].parent = task.Parent
        /\ jobs[1].dst = IF task.Path = <<>> THEN NewDownload.Dst
                         ELSE Append(NewDownload.Dst, task.Path[Len(task.Path)])
        /\ task.Parent = status.Dir
        /\ Len(status.Files) > 0 => task.Path = status.Files[1]
        /\ task.TaskID = jobs[1].id /\ saved = task
        /\ Len(log) >= 4
        /\ SubSeq(log, Len(log) - 3, Len(log))
              = <<"complete", "submit", "taskid", "save">>
        /\ dirs = Dirs /\ timers = 0 /\ cancels = <<>>
        /\ ret

\* C17 witness: the loop has ended after a job for /tmp/d1/a.iso was
\* submitted with destination /home/a.iso; the record holds the job's id and
\* the temp directory is still there.
C17_Witness ==
    /\ pc = "done" /\ JobSubmitted
    /\ jobs = << [ owner |-> "u1", dst |-> <<"home", "a.iso">>, src |-> PathA,
                   parent |-> Dir1, id |-> NewJobID ] >>
    /\ db.TaskID = NewJobID /\ Dir1 \in dirs

\* The current pass has a failed query or a response, without a redirect,
\* whose status is not active, waiting or paused.
TerminalAnswer ==
    \/ pc = "qfail"
    \/ /\ pc \in {"reconcile", "validate", "vfail", "dispatch"}
       /\ status.Status \notin {"active", "waiting", "paused"}

\* C18: under the fairness of the Loop goroutine and its timer, whenever the
\* loop waits at its select (and the bound on passes allows one more) another
\* pass begins; a pass whose query fails or whose response, without a
\* redirect, reports a status other than active, waiting and paused leads to
\* the end of the loop; and the loop never ends in a pass that reported
\* active, waiting or paused without a redirect and without a validation
\* failure.
C18_LoopProgress ==
    /\ (pc = "select" /\ passes < MaxPasses) ~> (pc = "query")
    /\ TerminalAnswer ~> (pc = "done")
    /\ [](pc = "done"
            => ~(/\ Answered /\ NoRedirect /\ err = ""
                 /\ status.Status \in {"active", "waiting", "paused"}))

\* C18 witness: after a pass that reported "active" and continued, the next
\* pass reported "error" and the loop has ended.
C18_Witness ==
    /\ pc = "done" /\ passes = 2
    /\ status.Status = "error" /\ calls.Error = 1
    /\ task.Status = "Error"

\* C19: the key under which the Monitor is subscribed is the identifier the
\* task had when NewMonitor was called, and the key of the deferred
\* Unsubscribe is that same identifier, whatever redirects and rewrites of the
\* identifier happen and however NewMonitor and the Loop goroutine interleave.
C19_DispatcherKeyIsFixed ==
    /\ subs \subseteq {NewDownload.GID}
    /\ pc # "entry" => unsubKey = NewDownload.GID

\* C20: no job is submitted in a pass whose validation failed, and a record
\* with a cancel request never has a job; when a pass reports "complete" and
\* its change of size or path violates a constraint, the pass asks the engine
\* to cancel, marks the record Error and stops without calling Complete.
C20_NoJobAfterFailedValidation ==
    /\ ValidationFailedInPass => (calls.Complete = 0 /\ jobs = <<>>)
    /\ cancels # <<>> => (jobs = <<>> /\ task.TaskID = "")
    /\ (PassEnded /\ Merged /\ status.Status = "complete"
          /\ SizeOrPathChanged(origin, task) /\ Violation(task) # "")
        => /\ cancels # <<>>
           /\ task.Status = "Error" /\ ret
           /\ calls.Complete = 0 /\ jobs = <<>>

====
